---------------------------- MODULE Spec2Model ----------------------------
(***************************************************************************)
(* A model of GPHS441_plates.py: the plate rotation functions length,      *)
(* lonlat, M, rotationMatrix and the multi-segment reader readGMTxy.       *)
(*                                                                         *)
(* Numbers.  The program computes in numpy float64.  The model computes   *)
(* in a binary floating-point format of the same kind with Prec           *)
(* significant bits instead of 53: a finite value is m * 2^e with         *)
(* m = 0, e = 0 or 2^(Prec-1) <= |m| < 2^Prec, every arithmetic result is *)
(* rounded to the nearest value of the format, ties to even, and a         *)
(* division by zero or an invalid operation yields inf or nan and raises   *)
(* nothing, as numpy's float64 scalars do.  The exponent is unbounded:     *)
(* overflow and underflow of the exponent range are not modelled, and      *)
(* zero carries no sign.                                                   *)
(***************************************************************************)
EXTENDS Integers, Sequences, FiniteSets, TLC

VARIABLES fn, arg, pc, loc, ret, ops

vars == <<fn, arg, pc, loc, ret, ops>>

(***************************************************************************)
(* Bounds of the model.                                                    *)
(***************************************************************************)
\* significant bits of the floating-point format (float64 has 53)
Prec == 10
\* vector components are drawn from -MaxComp .. MaxComp (and +-Tiny)
MaxComp == 2
\* longest file, in lines, given to readGMTxy
MaxLines == 4

(***************************************************************************)
(* Integer helpers.                                                        *)
(***************************************************************************)
\* the powers of two that fit a machine integer
Pow2Table == [i \in 0..30 |-> 2^i]

Pow2(n) == IF n <= 0 THEN 1 ELSE Pow2Table[n]

RECURSIVE BitLenFrom(_, _)
\* the number of bits of n, counted up from b for an n of at least b - 1 bits
BitLenFrom(n, b) == IF n < Pow2Table[b] THEN b ELSE BitLenFrom(n, b + 1)

BitLen(n) ==
    IF n <= 0 THEN 0
    ELSE IF n >= Pow2Table[16] THEN BitLenFrom(n, 17)
    ELSE IF n >= Pow2Table[8] THEN BitLenFrom(n, 9)
    ELSE BitLenFrom(n, 1)

Abs(n) == IF n < 0 THEN -n ELSE n

Sgn(n) == IF n > 0 THEN 1 ELSE IF n < 0 THEN -1 ELSE 0

RECURSIVE ISqrtFrom(_, _, _)
\* the largest r with r*r <= n, built bit by bit from bit b down
ISqrtFrom(n, r, b) ==
    IF b < 0 THEN r
    ELSE LET t == r + Pow2(b)
         IN  ISqrtFrom(n, IF t * t <= n THEN t ELSE r, b - 1)

ISqrt(n) == ISqrtFrom(n, 0, 15)

(***************************************************************************)
(* Floating-point values and rounding.                                     *)
(***************************************************************************)
Fin(m, e) == [k |-> "fin", m |-> m, e |-> e]

Zero == Fin(0, 0)

NaN == [k |-> "nan", m |-> 0, e |-> 0]

\* s = 1 for +inf, s = -1 for -inf
Inf(s) == [k |-> "inf", m |-> s, e |-> 0]

IsNaN(a) == a.k = "nan"

IsFin(a) == a.k = "fin"

\* the value m * 2^e (m any integer) rounded to Prec bits, ties to even
Round(m, e) ==
    IF m = 0 THEN Zero
    ELSE LET b == BitLen(Abs(m))
         IN  IF b <= Prec
             THEN Fin(m * Pow2(Prec - b), e - (Prec - b))
             ELSE LET s    == b - Prec
                      q    == Abs(m) \div Pow2(s)
                      r    == Abs(m) % Pow2(s)
                      half == Pow2(s - 1)
                      up   == r > half \/ (r = half /\ q % 2 = 1)
                      q1   == IF up THEN q + 1 ELSE q
                  IN  IF q1 = Pow2(Prec)
                      THEN Fin(Sgn(m) * Pow2(Prec - 1), e + s + 1)
                      ELSE Fin(Sgn(m) * q1, e + s)

\* float(n) for an integer n
FromInt(n) == Round(n, 0)

\* 2^n as a value of the format, n any integer
FromPow2(n) == Round(1, n)

FNeg(a) == [a EXCEPT !.m = -a.m]

\* the sign of a as -1, 0, 1 (nan: 0)
SignOf(a) == IF IsNaN(a) THEN 0 ELSE Sgn(a.m)

\* comparisons: every comparison with nan is false
FIsZero(a) == IsFin(a) /\ a.m = 0

FGtZero(a) == ~IsNaN(a) /\ a.m > 0

FLtZero(a) == ~IsNaN(a) /\ a.m < 0

\* a + b, rounded
FAdd(a, b) ==
    IF IsNaN(a) \/ IsNaN(b) THEN NaN
    ELSE IF a.k = "inf" /\ b.k = "inf" THEN (IF a.m = b.m THEN a ELSE NaN)
    ELSE IF a.k = "inf" THEN a
    ELSE IF b.k = "inf" THEN b
    ELSE IF a.m = 0 THEN b
    ELSE IF b.m = 0 THEN a
    ELSE LET hi == IF a.e >= b.e THEN a ELSE b
             lo == IF a.e >= b.e THEN b ELSE a
             d  == hi.e - lo.e
         IN  IF d <= Prec + 2
             THEN Round(hi.m * Pow2(d) + lo.m, lo.e)
             \* lo is below an eighth of hi's last place: a sticky unit
             ELSE Round(hi.m * 8 + Sgn(lo.m), hi.e - 3)

FSub(a, b) == FAdd(a, FNeg(b))

\* a * b, rounded
FMul(a, b) ==
    IF IsNaN(a) \/ IsNaN(b) THEN NaN
    ELSE IF a.k = "inf" \/ b.k = "inf"
         THEN (IF a.m = 0 \/ b.m = 0 THEN NaN ELSE Inf(Sgn(a.m) * Sgn(b.m)))
    ELSE Round(a.m * b.m, a.e + b.e)

\* a / b, rounded; x/0 is inf, 0/0 is nan, and nothing is raised
FDiv(a, b) ==
    IF IsNaN(a) \/ IsNaN(b) THEN NaN
    ELSE IF a.k = "inf" THEN (IF b.k = "inf" THEN NaN
                              ELSE Inf(a.m * (IF b.m < 0 THEN -1 ELSE 1)))
    ELSE IF b.k = "inf" THEN Zero
    ELSE IF b.m = 0 THEN (IF a.m = 0 THEN NaN ELSE Inf(Sgn(a.m)))
    ELSE IF a.m = 0 THEN Zero
    ELSE LET n   == Abs(a.m) * Pow2(Prec + 2)
             q   == n \div Abs(b.m)
             rem == n % Abs(b.m)
             st  == IF rem = 0 THEN 0 ELSE 1
         IN  Round(Sgn(a.m) * Sgn(b.m) * (2 * q + st),
                   a.e - b.e - Prec - 3)

\* sqrt(a), rounded; the square root of a negative number is nan
FSqrt(a) ==
    IF IsNaN(a) THEN NaN
    ELSE IF a.k = "inf" THEN (IF a.m > 0 THEN a ELSE NaN)
    ELSE IF a.m < 0 THEN NaN
    ELSE IF a.m = 0 THEN Zero
    ELSE LET odd == a.e % 2 = 1
             m2  == IF odd THEN 2 * a.m ELSE a.m
             e2  == IF odd THEN a.e - 1 ELSE a.e
             s   == IF (Prec + 4) % 2 = 0 THEN Prec + 4 ELSE Prec + 5
             n   == m2 * Pow2(s)
             r   == ISqrt(n)
             st  == IF r * r = n THEN 0 ELSE 1
         IN  Round(2 * r + st, ((e2 - s) \div 2) - 1)

(***************************************************************************)
(* Elementary functions.  Each is evaluated in integer arithmetic beyond   *)
(* the format's precision (a series below 1/8, CORDIC above) and the       *)
(* result is rounded to the format; it is within two units in the last     *)
(* place of the real value.  np.degrees of an inverse function is one      *)
(* rounded step, so that the exact values float64 returns,                 *)
(* degrees(arcsin(1)) = 90 and degrees(arctan(1)) = 45, are returned at    *)
(* every precision.                                                        *)
(***************************************************************************)
One == FromInt(1)

\* arctan(2^-i) in degrees, in units of 2^-20 degree, i = 0, 1, ...
AtanDegTab ==
    << 47185920, 27855475, 14718068, 7471121, 3750058, 1876857, 938658,
       469357, 234682, 117342, 58671, 29335, 14668, 7334, 3667, 1833,
       917, 458, 229, 115, 57, 29, 14, 7, 4, 2, 1 >>

RECURSIVE Vectoring(_, _, _, _)
\* rotates (x, y) onto the x axis; z accumulates the angle turned
Vectoring(x, y, z, i) ==
    IF i = Len(AtanDegTab) THEN z
    ELSE IF y > 0
         THEN Vectoring(x + (y \div Pow2(i)), y - (x \div Pow2(i)),
                        z + AtanDegTab[i + 1], i + 1)
         ELSE Vectoring(x - (y \div Pow2(i)), y + (x \div Pow2(i)),
                        z - AtanDegTab[i + 1], i + 1)

\* q * (1 - q^2/3 + q^4/5) * 180/pi, the inverse tangent of |q| < 1/8 in
\* degrees, or with asin set q * (1 + q^2/6 + 3 q^4/40) * 180/pi, the
\* inverse sine
SeriesDegrees(q, asin) ==
    LET m == Abs(q.m)
        Q == IF q.e + 15 >= 0 THEN m * Pow2(q.e + 15)
             ELSE m \div Pow2(-(q.e + 15))
        W == (Q * Q) \div Pow2(14)
        V == (W * W) \div Pow2(16)
        S == IF asin THEN Pow2(16) + (W \div 6) + ((3 * V) \div 40)
             ELSE Pow2(16) - (W \div 3) + (V \div 5)
        T == (S * 29335) \div Pow2(13)
    IN  Round(Sgn(q.m) * (2 * m * T + 1), q.e - 13)

\* np.degrees(np.arctan(q))
DegreesArctan(q) ==
    IF IsNaN(q) THEN NaN
    ELSE IF q.k = "inf" THEN FromInt(90 * q.m)
    ELSE IF q.m = 0 THEN Zero
    ELSE IF q.e + Prec <= -3 THEN SeriesDegrees(q, FALSE)
    ELSE LET m == Abs(q.m)
             e == q.e
             big == e >= 1 - Prec
             far == 26 - Prec - e < 0
             X == IF ~big THEN Pow2(26)
                  ELSE IF far THEN 1 ELSE Pow2(26 - Prec - e)
             Y == IF ~big THEN m * Pow2(e + 26)
                  ELSE IF far THEN Pow2(26) ELSE m * Pow2(26 - Prec)
             Z == Vectoring(X, Y, 0, 0)
         IN  Round(Sgn(q.m) * (2 * Z + 1), -21)

\* np.degrees(np.arcsin(z)); outside [-1, 1] the result is nan
DegreesArcsin(z) ==
    IF ~IsFin(z) THEN NaN
    ELSE IF FGtZero(FSub(z, One)) \/ FLtZero(FAdd(z, One)) THEN NaN
    ELSE IF z.m = 0 THEN Zero
    ELSE IF z.e + Prec <= -3 THEN SeriesDegrees(z, TRUE)
    ELSE DegreesArctan(FDiv(z, FSqrt(FMul(FSub(One, z), FAdd(One, z)))))

\* arctan(2^-i) in radians, in units of 2^-24, i = 0, 1, ...
AtanRadTab ==
    << 13176795, 7778716, 4110060, 2086331, 1047214, 524117, 262123, 131069,
       65536, 32768, 16384, 8192, 4096, 2048, 1024, 512, 256, 128, 64,
       32, 16, 8, 4, 2, 1 >>

RECURSIVE Rotation(_, _, _, _)
\* turns (x, y) by the angle z; returns the turned <<x, y>>
Rotation(x, y, z, i) ==
    IF i = Len(AtanRadTab) THEN <<x, y>>
    ELSE IF z >= 0
         THEN Rotation(x - (y \div Pow2(i)), y + (x \div Pow2(i)),
                       z - AtanRadTab[i + 1], i + 1)
         ELSE Rotation(x + (y \div Pow2(i)), y - (x \div Pow2(i)),
                       z + AtanRadTab[i + 1], i + 1)

\* <<cos(a), sin(a)>> in units of 2^-26 for a finite a >= 0 in radians
CosSin(a) ==
    LET A  == IF a.e + 24 >= 0 THEN a.m * Pow2(a.e + 24)
              ELSE a.m \div Pow2(-(a.e + 24))
        pi == 52707179
        k  == (A + (pi \div 2)) \div pi
        xy == Rotation(40752055, 0, A - k * pi, 0)
        s  == IF k % 2 = 0 THEN 1 ELSE -1
    IN  <<s * xy[1], s * xy[2]>>

\* np.sin(a)
FSin(a) ==
    IF ~IsFin(a) THEN NaN
    ELSE IF a.m = 0 THEN Zero
    ELSE IF a.m < 0 THEN FNeg(Round(2 * CosSin(FNeg(a))[2] + 1, -27))
    ELSE Round(2 * CosSin(a)[2] + 1, -27)

\* np.cos(a)
FCos(a) ==
    IF ~IsFin(a) THEN NaN
    ELSE IF a.m = 0 THEN One
    ELSE Round(2 * CosSin(IF a.m < 0 THEN FNeg(a) ELSE a)[1] + 1, -27)

(***************************************************************************)
(* numpy operations used by the program.                                   *)
(***************************************************************************)
\* np.shape(v) of a one-dimensional array
shape(v) == <<Len(v)>>

\* a faulty shape test that only rejects arrays shorter than 3
NotThreeVectorShort(v) == Len(v) < 3

\* the test np.shape(v) != (3,) that guards lonlat, M and rotationMatrix
NotThreeVector(v) == shape(v) # <<3>>

RECURSIVE DotFrom(_, _, _, _)
DotFrom(a, b, acc, i) ==
    IF i > Len(a) THEN acc
    ELSE DotFrom(a, b, FAdd(acc, FMul(a[i], b[i])), i + 1)

\* v.dot(w) of two one-dimensional arrays
dot(a, b) == DotFrom(a, b, Zero, 1)

\* length(vector): np.sqrt(v.dot(v))
length(vector) == FSqrt(dot(vector, vector))

\* a faulty sign that takes 0 for positive
np_sign_positive(a) ==
    IF IsNaN(a) THEN NaN ELSE IF a.m < 0 THEN FromInt(-1) ELSE One

\* np.sign(a): -1, 0 or 1, and nan for nan
np_sign(a) == IF IsNaN(a) THEN NaN ELSE FromInt(Sgn(a.m))

FAbs(a) == [a EXCEPT !.m = Abs(a.m)]

\* C fmod(a, b) for finite b # 0: a - trunc(a/b)*b, which is exact
fmod(a, b) ==
    IF ~IsFin(a) THEN NaN
    ELSE IF FLtZero(FSub(FAbs(a), FAbs(b))) THEN a
    ELSE LET e0 == IF a.e <= b.e THEN a.e ELSE b.e
             A  == Abs(a.m) * Pow2(a.e - e0)
             B  == Abs(b.m) * Pow2(b.e - e0)
         IN  Round(Sgn(a.m) * (A % B), e0)

\* np.mod(a, b) for finite b # 0 (numpy's npy_divmod): the remainder with
\* the sign of b; a remainder of the other sign has b added to it, and
\* that sum is rounded like any other
np_mod(a, b) ==
    LET mod == fmod(a, b)
    IN  IF IsNaN(mod) THEN NaN
        ELSE IF mod.m = 0 THEN Zero
        ELSE IF FLtZero(b) # FLtZero(mod) THEN FAdd(mod, b)
             ELSE mod

\* a division that guards against a zero divisor, which the program lacks
FDivGuarded(a, b) == IF FIsZero(b) THEN Zero ELSE FDiv(a, b)

\* v[i] / L for an element of an array and a float64 scalar
divide(a, b) == FDiv(a, b)

(***************************************************************************)
(* lonlat(vector): the longitude branches of lines 78 to 85.               *)
(***************************************************************************)
\* which of the four branches is taken for the normalized x and y
lonBranch(x, y) ==
    IF FIsZero(x) THEN "x == 0"
    ELSE IF FGtZero(x) THEN "x > 0"
    ELSE IF FIsZero(y) THEN "y == 0"
    ELSE "else"

\* the longitude before it is reduced modulo 360
longitude(x, y) ==
    IF FIsZero(x) THEN FMul(np_sign(y), FromInt(90))
    ELSE IF FGtZero(x) THEN DegreesArctan(divide(y, x))
    ELSE IF FIsZero(y) THEN FAdd(FromInt(180), DegreesArctan(divide(y, x)))
    ELSE FAdd(FMul(np_sign(y), FromInt(180)), DegreesArctan(divide(y, x)))

ValueError(msg) == [exc |-> "ValueError", msg |-> msg]

lonlat_check ==
    /\ fn = "lonlat" /\ pc = "check"
    /\ IF NotThreeVector(arg)
       THEN /\ pc' = "raise"
            /\ ret' = ValueError("lonlat(): expects 3-vector")
            /\ loc' = loc
       ELSE /\ pc' = "normalize"
            /\ loc' = [v |-> arg]
            /\ ret' = ret
    /\ UNCHANGED <<fn, arg, ops>>

lonlat_normalize ==
    /\ fn = "lonlat" /\ pc = "normalize"
    /\ LET L == length(loc.v)
       IN  loc' = [v |-> loc.v, L |-> L,
                   x |-> divide(loc.v[1], L),
                   y |-> divide(loc.v[2], L),
                   z |-> divide(loc.v[3], L)]
    /\ ops' = ops \o <<"length", "divide">>
    /\ pc' = "angles"
    /\ UNCHANGED <<fn, arg, ret>>

lonlat_angles ==
    /\ fn = "lonlat" /\ pc = "angles"
    /\ loc' = [x |-> loc.x, y |-> loc.y, z |-> loc.z,
               lat |-> DegreesArcsin(loc.z),
               branch |-> lonBranch(loc.x, loc.y),
               lon |-> longitude(loc.x, loc.y)]
    /\ ops' = ops \o <<"arcsin", "longitude">>
    /\ pc' = "mod"
    /\ UNCHANGED <<fn, arg, ret>>

lonlat_return ==
    /\ fn = "lonlat" /\ pc = "mod"
    /\ ret' = <<np_mod(loc.lon, FromInt(360)), loc.lat>>
    /\ ops' = Append(ops, "mod")
    /\ pc' = "return"
    /\ UNCHANGED <<fn, arg, loc>>

(***************************************************************************)
(* M(h) and rotationMatrix(h).  A 3x3 array is a tuple of three rows.      *)
(***************************************************************************)
\* M with the sign of one entry slipped
MSignSlip(h) ==
    << <<Zero,       FNeg(h[3]), h[2]      >>,
       <<h[3],       Zero,       FNeg(h[1])>>,
       <<h[2],       h[1],       Zero      >> >>

\* the array M returns for a 3-vector h
M(h) ==
    << <<Zero,       FNeg(h[3]), h[2]      >>,
       <<h[3],       Zero,       FNeg(h[1])>>,
       <<FNeg(h[2]), h[1],       Zero      >> >>

\* np.cross(h, u) of two 3-vectors
cross(h, u) ==
    << FSub(FMul(h[2], u[3]), FMul(h[3], u[2])),
       FSub(FMul(h[3], u[1]), FMul(h[1], u[3])),
       FSub(FMul(h[1], u[2]), FMul(h[2], u[1])) >>

\* np.identity(3)
identity3 ==
    << <<One, Zero, Zero>>, <<Zero, One, Zero>>, <<Zero, Zero, One>> >>

\* np.dot(A, u): a 3x3 array times a 3-vector
matvec(A, u) == [i \in 1..3 |-> dot(A[i], u)]

column(A, j) == [i \in 1..3 |-> A[i][j]]

\* np.dot(A, B) of two 3x3 arrays
matmul(A, B) == [i \in 1..3 |-> [j \in 1..3 |-> dot(A[i], column(B, j))]]

\* c * A and A + B, element by element
scale(c, A) == [i \in 1..3 |-> [j \in 1..3 |-> FMul(c, A[i][j])]]

matadd(A, B) == [i \in 1..3 |-> [j \in 1..3 |-> FAdd(A[i][j], B[i][j])]]

\* rotationMatrix without its angle == 0 branch
neverZero(angle) == FALSE

\* the test angle == 0 of rotationMatrix
angleIsZero(angle) == FIsZero(angle)

\* Rodrigues' formula with the element by element product P*P for
\* np.dot(P,P)
rodriguesElementwise(angle, P) ==
    matadd(matadd(identity3, scale(FSin(angle), P)),
           scale(FSub(One, FCos(angle)),
                 [i \in 1..3 |-> [j \in 1..3 |-> FMul(P[i][j], P[i][j])]]))

\* I + np.sin(angle)*P + (1. - np.cos(angle))*np.dot(P,P)
rodrigues(angle, P) ==
    matadd(matadd(identity3, scale(FSin(angle), P)),
           scale(FSub(One, FCos(angle)), matmul(P, P)))

M_check ==
    /\ fn = "M" /\ pc = "check"
    /\ IF NotThreeVector(arg)
       THEN /\ pc' = "raise"
            /\ ret' = ValueError("M(h): expects 3-vector h")
            /\ ops' = ops
       ELSE /\ pc' = "return"
            /\ ret' = M(arg)
            /\ ops' = Append(ops, "array")
    /\ UNCHANGED <<fn, arg, loc>>

rotationMatrix_check ==
    /\ fn = "rotationMatrix" /\ pc = "check"
    /\ IF NotThreeVector(arg)
       THEN /\ pc' = "raise"
            /\ ret' = ValueError("rotationMatrix(h): expects 3-vector h")
            /\ loc' = loc
            /\ ops' = ops
       ELSE /\ pc' = "branch"
            /\ loc' = [h |-> arg, angle |-> length(arg)]
            /\ ret' = ret
            /\ ops' = Append(ops, "length")
    /\ UNCHANGED <<fn, arg>>

rotationMatrix_identity ==
    /\ fn = "rotationMatrix" /\ pc = "branch"
    /\ angleIsZero(loc.angle)
    /\ ret' = identity3
    /\ loc' = [h |-> loc.h, angle |-> loc.angle, branch |-> "angle == 0"]
    /\ pc' = "return"
    /\ UNCHANGED <<fn, arg, ops>>

rotationMatrix_rodrigues ==
    /\ fn = "rotationMatrix" /\ pc = "branch"
    /\ ~angleIsZero(loc.angle)
    /\ LET polePositionVector == [i \in 1..3 |-> divide(loc.h[i], loc.angle)]
           P == M(polePositionVector)
       IN  /\ ret' = rodrigues(loc.angle, P)
           /\ loc' = [h |-> loc.h, angle |-> loc.angle, branch |-> "else",
                      polePositionVector |-> polePositionVector, P |-> P]
    /\ ops' = ops \o <<"divide", "array", "sin", "cos", "dot">>
    /\ pc' = "return"
    /\ UNCHANGED <<fn, arg>>

(***************************************************************************)
(* readGMTxy(filename).  The file is the list of its lines, each line the  *)
(* list of tokens line.strip().split() yields; a token is a string.        *)
(***************************************************************************)
\* float(w) of a token that is a one-digit decimal literal
float(w) == FromInt(CHOOSE n \in 0..9 : ToString(n) = w)

readGMTxy_open ==
    /\ fn = "readGMTxy" /\ pc = "open"
    /\ loc' = [feature |-> <<>>, x |-> <<>>, y |-> <<>>, data |-> arg, i |-> 1]
    /\ pc' = "loop"
    /\ UNCHANGED <<fn, arg, ret, ops>>

readGMTxy_line ==
    /\ fn = "readGMTxy" /\ pc = "loop"
    /\ loc.i <= Len(loc.data)
    /\ LET w == loc.data[loc.i]
       IN  IF w[1] = ">"
           THEN loc' = [loc EXCEPT
                          !.feature = IF loc.x # <<>>
                                      THEN Append(@, <<loc.x, loc.y>>)
                                      ELSE @,
                          !.x = <<>>, !.y = <<>>, !.i = @ + 1]
           ELSE loc' = [loc EXCEPT
                          !.x = Append(@, float(w[1])),
                          !.y = Append(@, float(w[2])),
                          !.i = @ + 1]
    /\ UNCHANGED <<fn, arg, pc, ret, ops>>

readGMTxy_return ==
    /\ fn = "readGMTxy" /\ pc = "loop"
    /\ loc.i > Len(loc.data)
    /\ ret' = loc.feature
    /\ pc' = "return"
    /\ UNCHANGED <<fn, arg, loc, ops>>

(***************************************************************************)
(* Inputs and specifications.                                              *)
(***************************************************************************)
\* a magnitude at the format's rounding level: 2^-Prec
Tiny == FromPow2(-Prec)

Whole == {FromInt(n) : n \in -MaxComp..MaxComp}

Comp == Whole \cup {Tiny, FNeg(Tiny)}

\* one-dimensional arrays of 2, 3 and 4 components
Arrays(S) == UNION {[1..n -> S] : n \in 2..4}

Marker == <<">">>

DataLines == {<<"1", "2">>, <<"3", "4">>}

RECURSIVE FilesOfLen(_)
FilesOfLen(n) ==
    IF n = 0 THEN {<<>>}
    ELSE {Append(f, l) : f \in FilesOfLen(n - 1), l \in {Marker} \cup DataLines}

Files == UNION {FilesOfLen(n) : n \in 0..MaxLines}

Start(f, a, p) ==
    /\ fn = f /\ arg = a /\ pc = p
    /\ loc = <<>> /\ ret = <<>> /\ ops = <<>>

InitLonlat == \E a \in Arrays(Comp) : Start("lonlat", a, "check")

InitM == \E a \in Arrays(Whole) : Start("M", a, "check")

InitRotation == \E a \in Arrays(Whole) : Start("rotationMatrix", a, "check")

InitRead == \E a \in Files : Start("readGMTxy", a, "open")

Init == InitLonlat \/ InitM \/ InitRotation \/ InitRead

NextLonlat ==
    lonlat_check \/ lonlat_normalize \/ lonlat_angles \/ lonlat_return

NextRotation ==
    rotationMatrix_check \/ rotationMatrix_identity \/ rotationMatrix_rodrigues

NextRead == readGMTxy_open \/ readGMTxy_line \/ readGMTxy_return

Next == NextLonlat \/ M_check \/ NextRotation \/ NextRead

\* every function of the module, called once on one input
Spec == Init /\ [][Next]_vars

\* lonlat alone
SpecLonlat == InitLonlat /\ [][NextLonlat]_vars

\* M alone
SpecM == InitM /\ [][M_check]_vars

\* rotationMatrix alone
SpecRotation == InitRotation /\ [][NextRotation]_vars

\* readGMTxy alone
SpecRead == InitRead /\ [][NextRead]_vars

(***************************************************************************)
(* Properties.                                                             *)
(***************************************************************************)
\* a < b and a <= b for values that are not nan
FLess(a, b) == FLtZero(FSub(a, b))

FLessEq(a, b) == ~FGtZero(FSub(a, b))

Vec3(S) == [1..3 -> S]

ZeroVector == [i \in 1..3 |-> Zero]

\* C1: lonlat, M and rotationMatrix raise ValueError exactly for the inputs
\* that do not have 3 components, and they raise it before any
\* normalization, division or array construction has been performed.
C1_ShapeErrorExactlyOffThree ==
    fn \in {"lonlat", "M", "rotationMatrix"} =>
        /\ pc = "raise" =>
              /\ Len(arg) # 3
              /\ ret.exc = "ValueError"
              /\ ops = <<>>
        /\ (Len(arg) # 3 /\ pc # "check") => pc = "raise"

C1_RaisedOnFour ==
    fn = "rotationMatrix" /\ pc = "raise" /\ Len(arg) = 4

C4_SkewIsCrossProduct ==
    (fn = "M" /\ pc = "return") =>
        /\ \A u \in Vec3(Comp) : matvec(ret, u) = cross(arg, u)
        /\ \A i \in 1..3 : \A j \in 1..3 : ret[i][j] = FNeg(ret[j][i])

C4_SkewReturned ==
    /\ fn = "M" /\ pc = "return"
    /\ \A i \in 1..3 : arg[i] # Zero
    /\ \E u \in Vec3(Comp) : matvec(ret, u) # ZeroVector

\* the tolerance of the numerical properties: sixteen units in the last place of 1
Tol == FromPow2(4 - Prec)

Within(a, b, tol) == FLessEq(FAbs(FSub(a, b)), tol)

transpose(A) == [i \in 1..3 |-> [j \in 1..3 |-> A[j][i]]]

det(A) ==
    FAdd(FSub(FMul(A[1][1], FSub(FMul(A[2][2], A[3][3]), FMul(A[2][3], A[3][2]))),
              FMul(A[1][2], FSub(FMul(A[2][1], A[3][3]), FMul(A[2][3], A[3][1])))),
         FMul(A[1][3], FSub(FMul(A[2][1], A[3][2]), FMul(A[2][2], A[3][1]))))

\* C5: for every rotation vector h, R = rotationMatrix(h) is orthonormal
\* (R^T R = I) with determinant 1, and length(R.v) = length(v) for every v,
\* each to within the floating-point tolerance Tol.
C5_RotationIsOrthonormal ==
    (fn = "rotationMatrix" /\ pc = "return") =>
        /\ LET G == matmul(transpose(ret), ret)
           IN  \A i \in 1..3 : \A j \in 1..3 :
                   Within(G[i][j], identity3[i][j], Tol)
        /\ Within(det(ret), One, Tol)
        /\ \A v \in Vec3(Whole) :
               LET l == length(v)
               IN  Within(length(matvec(ret, v)), l, FMul(Tol, l))

C5_RotatedOffAxis ==
    /\ fn = "rotationMatrix" /\ pc = "return"
    /\ loc.branch = "else"
    /\ \A i \in 1..3 : arg[i] # Zero
    /\ \E v \in Vec3(Whole) :
           \A i \in 1..3 : ~Within(matvec(ret, v)[i], v[i], Tol)

\* C6: rotationMatrix of the zero vector returns exactly the identity by
\* the angle == 0 branch, with no division performed; every other 3-vector
\* takes the Rodrigues branch.
C6_ZeroIsIdentityBranch ==
    (fn = "rotationMatrix" /\ pc = "return") =>
        IF arg = ZeroVector
        THEN /\ ret = identity3
             /\ loc.branch = "angle == 0"
             /\ \A i \in 1..Len(ops) : ops[i] # "divide"
        ELSE /\ loc.branch = "else"
             /\ \E i \in 1..Len(ops) : ops[i] = "divide"

C6_IdentityReturned ==
    fn = "rotationMatrix" /\ pc = "return" /\ arg = ZeroVector

RECURSIVE Segments(_, _, _)
\* the non-empty maximal runs of data lines of a file, in file order, each
\* as <<xs, ys>>; run is the run being read
Segments(file, i, run) ==
    LET close == IF run[1] # <<>> THEN <<run>> ELSE <<>>
    IN  IF i > Len(file) THEN close
        ELSE IF file[i][1] = ">"
             THEN close \o Segments(file, i + 1, <<<<>>, <<>>>>)
             ELSE Segments(file, i + 1,
                           <<Append(run[1], float(file[i][1])),
                             Append(run[2], float(file[i][2]))>>)

\* C7: readGMTxy returns, in file order, exactly the non-empty segments of
\* the file: one <<xs, ys>> entry for each maximal run of data lines that
\* markers, the start of the file or the end of the file delimit.
C7_ReturnsEverySegment ==
    (fn = "readGMTxy" /\ pc = "return") =>
        ret = Segments(arg, 1, <<<<>>, <<>>>>)

\* a <= lon <= b, a < lon < b for the returned longitude
LonIs(d) == ret[1] = FromInt(d)

LonBetween(a, b) == FLess(FromInt(a), ret[1]) /\ FLess(ret[1], FromInt(b))

\* C8: for a 3-vector whose normalized x and y are not both zero the
\* returned longitude lies in the quadrant the signs of x and y fix.
C8_LongitudeQuadrant ==
    (/\ fn = "lonlat" /\ pc = "return" /\ arg # ZeroVector
     /\ ~(FIsZero(loc.x) /\ FIsZero(loc.y))) =>
        LET sx == SignOf(loc.x)
            sy == SignOf(loc.y)
        IN  /\ (sx > 0 /\ sy >= 0) => (LonIs(0) \/ LonBetween(0, 90))
            /\ (sx = 0 /\ sy > 0) => LonIs(90)
            /\ (sx < 0 /\ sy > 0) => LonBetween(90, 180)
            /\ (sx < 0 /\ sy = 0) => LonIs(180)
            /\ (sx < 0 /\ sy < 0) => LonBetween(180, 270)
            /\ (sx = 0 /\ sy < 0) => LonIs(270)
            /\ (sx > 0 /\ sy < 0) => LonBetween(270, 360)

\* C9: for a 3-vector with x = 0, y = 0 and z # 0 lonlat raises nothing and
\* returns longitude 0 and latitude +90 for z > 0, -90 for z < 0.
C9_PolarAxis ==
    (/\ fn = "lonlat" /\ Len(arg) = 3
     /\ arg[1] = Zero /\ arg[2] = Zero /\ arg[3] # Zero) =>
        /\ pc # "raise"
        /\ pc = "return" =>
              /\ ret[1] = Zero
              /\ ret[2] = FromInt(90 * SignOf(arg[3]))
              /\ loc.branch = "x == 0"

C9_PolarAxisReturned ==
    /\ fn = "lonlat" /\ pc = "return"
    /\ arg[1] = Zero /\ arg[2] = Zero /\ FLtZero(arg[3])

\* C10: lonlat of the zero vector passes the shape check, divides by the
\* length 0, raises nothing and returns [nan, nan].
C10_ZeroVectorIsNaN ==
    (fn = "lonlat" /\ arg = ZeroVector) =>
        /\ pc # "raise"
        /\ pc = "angles" => (FIsZero(loc.L) /\ IsNaN(loc.x))
        /\ pc = "return" =>
              /\ IsNaN(ret[1]) /\ IsNaN(ret[2])
              /\ \E i \in 1..Len(ops) : ops[i] = "divide"

C10_ZeroVectorReturned ==
    fn = "lonlat" /\ arg = ZeroVector /\ pc = "return"

=============================================================================
